---- MODULE Spec2Model ----
(***************************************************************************)
(* Model of the self-updating script repository:                           *)
(*   src/updater.py     AutoUpdater (zip based updater) and its CLI        *)
(*   src/main.py        host application calling AutoUpdater at startup    *)
(*   src/test2/main.py  single-file variant (check / perform_update)       *)
(*                                                                         *)
(* Strings that the code compares are sequences of code points, file       *)
(* names are the sequences of their '/'-separated components, and the file *)
(* system is a function from resolved absolute paths to nodes.             *)
(***************************************************************************)
EXTENDS Integers, Sequences, FiniteSets, TLC

VARIABLES
    entry,        \* which program runs: "cli", "update_now", "check_only", "host", "script"
    args,         \* the set of command-line flags given to updater.py
    pc,           \* position of the running process
    fs,           \* the file system: resolved path -> node
    manifestResp, \* what the version.json endpoint answers (NotFetched until first asked)
    zipResp,      \* what the artifact endpoint answers (NotFetched until first asked)
    chk,          \* outcome of the last check_for_updates of this process image
    upd,          \* outcome of the last do_update / perform_update of this process image
                  \* (before: the file system when it was called)
    logs,         \* log events emitted by this process image
    restartCalls, \* history: one record per call of the restart primitive
    restarts,     \* number of successful process replacements so far
    fault,        \* which file operation the operating system refuses (NotDrawn until the first install)
    currentVersion, \* CURRENT_VERSION of the running single-file script image
    answer        \* what the user typed at the host's "Update now? (y/n)" prompt

vars == <<entry, args, pc, fs, manifestResp, zipResp, chk, upd, logs,
          restartCalls, restarts, fault, currentVersion, answer>>

(***************************************************************************)
(* Bounds of the model.                                                    *)
(***************************************************************************)
MaxVerLen == 2      \* all version strings up to this length are compared
MaxEntries == 2     \* longest archive listing
MaxRestarts == 1    \* successful process replacements followed

(***************************************************************************)
(* Python values that a JSON "version" field can hold.                     *)
(***************************************************************************)
PyStr(s) == [t |-> "str", s |-> s, n |-> 0]
PyInt(n) == [t |-> "int", s |-> <<>>, n |-> n]
PyNone == [t |-> "none", s |-> <<>>, n |-> 0]

\* Code points of the characters used in version strings: '.', '0', '1', '9'.
Chars == {46, 48, 49, 57}

V_0_0_0 == <<48, 46, 48, 46, 48>>
V_1_0_0 == <<49, 46, 48, 46, 48>>
V_1_0_1 == <<49, 46, 48, 46, 49>>
V_1_9_0 == <<49, 46, 57, 46, 48>>
V_1_10_0 == <<49, 46, 49, 48, 46, 48>>

\* Python truth value of an object: None, "" and 0 are false.
Truthy(v) ==
    CASE v.t = "none" -> FALSE
      [] v.t = "str" -> v.s # <<>>
      [] v.t = "int" -> v.n # 0

\* Python's  a > b  on two str objects: code point by code point, a proper
\* prefix being smaller.
RECURSIVE PyStrGt(_, _)
PyStrGt(a, b) ==
    IF a = <<>> THEN FALSE
    ELSE IF b = <<>> THEN TRUE
    ELSE IF a[1] # b[1] THEN a[1] > b[1]
    ELSE PyStrGt(Tail(a), Tail(b))

\* Python's  a > b  on two objects: "TypeError" when the types do not order.
PyGt(a, b) ==
    CASE a.t = "str" /\ b.t = "str" -> IF PyStrGt(a.s, b.s) THEN "true" ELSE "false"
      [] a.t = "int" /\ b.t = "int" -> IF a.n > b.n THEN "true" ELSE "false"
      [] OTHER -> "TypeError"

(***************************************************************************)
(* File contents and HTTP responses.                                       *)
(***************************************************************************)
\* Arbitrary data: neither JSON nor Python source.
Bytes(i) == [ck |-> "bytes", id |-> i, hasVer |-> FALSE, ver |-> PyNone, hasUrl |-> FALSE]
\* A JSON object; hasVer / hasUrl say whether the keys "version" / "url" are present.
JsonObj(hv, v, hu) == [ck |-> "json_obj", id |-> 0, hasVer |-> hv, ver |-> v, hasUrl |-> hu]
\* Valid JSON that is not an object (a list, a number).
JsonOther == [ck |-> "json_other", id |-> 0, hasVer |-> FALSE, ver |-> PyNone, hasUrl |-> FALSE]
\* Python source text (contains "def " / "import ") whose CURRENT_VERSION is v.
PyCode(v) == [ck |-> "py", id |-> 0, hasVer |-> TRUE, ver |-> v, hasUrl |-> FALSE]
\* Python source text without any import: it contains "def " only.
PyDefOnly(v) == [ck |-> "py_def", id |-> 0, hasVer |-> TRUE, ver |-> v, hasUrl |-> FALSE]

VersionJson(v) == JsonObj(TRUE, v, TRUE)

NoEntries == <<>>
NotFetched == [rk |-> "not_fetched", body |-> Bytes(0), isZip |-> FALSE, entries |-> NoEntries]
NetError == [rk |-> "net_error", body |-> Bytes(0), isZip |-> FALSE, entries |-> NoEntries]
Timeout == [rk |-> "timeout", body |-> Bytes(0), isZip |-> FALSE, entries |-> NoEntries]
HttpError == [rk |-> "http_error", body |-> Bytes(0), isZip |-> FALSE, entries |-> NoEntries]
Ok(c) == [rk |-> "ok", body |-> c, isZip |-> FALSE, entries |-> NoEntries]
OkZip(es) == [rk |-> "ok", body |-> Bytes(0), isZip |-> TRUE, entries |-> es]

(***************************************************************************)
(* The file system.                                                        *)
(***************************************************************************)
DirNode == [nk |-> "dir", c |-> Bytes(0)]
FileNode(c) == [nk |-> "file", c |-> c]

Exists(f, p) == p \in DOMAIN f
IsDir(f, p) == Exists(f, p) /\ f[p].nk = "dir"
IsFile(f, p) == Exists(f, p) /\ f[p].nk = "file"

\* self.target_dir and self.local_version_file
TargetDir == <<"app">>
local_version_file == TargetDir \o <<"version.json">>

(***************************************************************************)
(* AutoUpdater.get_local_version: [val, logs]                              *)
(***************************************************************************)
\* The mutant's default for a missing record is "0".
get_local_version_zero(f) ==
    IF ~Exists(f, local_version_file)
    THEN [val |-> PyStr(<<48>>), logs |-> {"warn_local_missing"}]
    ELSE IF IsFile(f, local_version_file) /\ f[local_version_file].c.ck = "json_obj"
    THEN LET data == f[local_version_file].c
         IN [val |-> IF data.hasVer THEN data.ver ELSE PyStr(V_0_0_0), logs |-> {}]
    ELSE [val |-> PyStr(V_0_0_0), logs |-> {"err_local"}]

get_local_version(f) ==
    IF ~Exists(f, local_version_file)
    THEN [val |-> PyStr(V_0_0_0), logs |-> {"warn_local_missing"}]
    ELSE IF IsFile(f, local_version_file) /\ f[local_version_file].c.ck = "json_obj"
    THEN LET data == f[local_version_file].c
         IN [val |-> IF data.hasVer THEN data.ver ELSE PyStr(V_0_0_0), logs |-> {}]
    ELSE [val |-> PyStr(V_0_0_0), logs |-> {"err_local"}]

(***************************************************************************)
(* AutoUpdater.get_remote_version: [val, logs]                             *)
(***************************************************************************)
\* The mutant answers a failed fetch with the default version, the way
\* get_local_version does, in place of None.
get_remote_version_default(resp) ==
    IF resp.rk = "ok" /\ resp.body.ck = "json_obj"
    THEN [val |-> IF resp.body.hasVer THEN resp.body.ver ELSE PyNone, logs |-> {}]
    ELSE [val |-> PyStr(V_0_0_0), logs |-> {"err_remote"}]

get_remote_version(resp) ==
    IF resp.rk = "ok" /\ resp.body.ck = "json_obj"
    THEN [val |-> IF resp.body.hasVer THEN resp.body.ver ELSE PyNone, logs |-> {}]
    ELSE [val |-> PyNone, logs |-> {"err_remote"}]

(***************************************************************************)
(* AutoUpdater.check_for_updates: [raised, available, local_ver,           *)
(* remote_ver, logs].  raised is TRUE when the comparison throws.          *)
(***************************************************************************)
\* The mutant orders versions the way a semantic-version comparator would
\* on these strings: a longer string is the newer one.
remote_is_newer_semver(remote_ver, local_ver) ==
    IF remote_ver.t = "str" /\ local_ver.t = "str" /\ Len(remote_ver.s) # Len(local_ver.s)
    THEN IF Len(remote_ver.s) > Len(local_ver.s) THEN "true" ELSE "false"
    ELSE PyGt(remote_ver, local_ver)

remote_is_newer(remote_ver, local_ver) == PyGt(remote_ver, local_ver)

check_for_updates(f, resp) ==
    LET l == get_local_version(f)
        r == get_remote_version(resp)
        local_ver == l.val
        remote_ver == r.val
        lg == l.logs \cup r.logs
        uptodate == [raised |-> FALSE, available |-> FALSE, local_ver |-> local_ver,
                     remote_ver |-> remote_ver, logs |-> lg \cup {"info_uptodate"}]
    IN IF Truthy(remote_ver) /\ remote_ver # local_ver
       THEN CASE remote_is_newer(remote_ver, local_ver) = "TypeError" ->
                   [raised |-> TRUE, available |-> FALSE, local_ver |-> local_ver,
                    remote_ver |-> remote_ver, logs |-> lg]
              [] remote_is_newer(remote_ver, local_ver) = "true" ->
                   [raised |-> FALSE, available |-> TRUE, local_ver |-> local_ver,
                    remote_ver |-> remote_ver, logs |-> lg \cup {"info_update"}]
              [] OTHER -> uptodate
       ELSE uptodate

(***************************************************************************)
(* Paths.  A file name is the sequence of its '/'-separated components, so *)
(* "Repo-main/" is <<"Repo-main", "">> and "a//b" is <<"a", "", "b">>.     *)
(* A lexical absolute path is the sequence of components below "/".        *)
(***************************************************************************)
Front(sq) == SubSeq(sq, 1, Len(sq) - 1)
Last(sq) == sq[Len(sq)]

\* ZipInfo.is_dir(): the file name ends with '/'.
is_dir(name) == Len(name) >= 2 /\ Last(name) = ""

\* os.path.join(self.target_dir, rel_path): an absolute rel_path replaces
\* the directory it is joined to.
path_join(dir, rel) == IF Len(rel) >= 2 /\ rel[1] = "" THEN Tail(rel) ELSE dir \o rel

\* The node a lexical path names once its directories exist: empty
\* components and "." are skipped, ".." steps to the parent.
RECURSIVE Walk(_, _)
Walk(cur, lex) ==
    IF lex = <<>> THEN cur
    ELSE IF Head(lex) \in {"", "."} THEN Walk(cur, Tail(lex))
    ELSE IF Head(lex) = ".." THEN Walk(IF cur = <<>> THEN cur ELSE Front(cur), Tail(lex))
    ELSE Walk(Append(cur, Head(lex)), Tail(lex))

Resolve(lex) == Walk(<<>>, lex)

\* f with node nd stored at path p
Put(f, p, nd) == [q \in DOMAIN f \cup {p} |-> IF q = p THEN nd ELSE f[q]]

\* os.makedirs(lex, exist_ok=True): [err, fs].  Every prefix that does not
\* exist is created; a prefix that is a file is an error.
RECURSIVE MakeDirsFrom(_, _, _)
MakeDirsFrom(f, cur, lex) ==
    IF lex = <<>> THEN [err |-> FALSE, fs |-> f]
    ELSE LET nxt == Walk(cur, <<Head(lex)>>)
         IN IF IsFile(f, nxt) THEN [err |-> TRUE, fs |-> f]
            ELSE MakeDirsFrom(IF Exists(f, nxt) THEN f ELSE Put(f, nxt, DirNode),
                              nxt, Tail(lex))

makedirs(f, lex) == MakeDirsFrom(f, <<>>, lex)

(***************************************************************************)
(* AutoUpdater.do_update.                                                  *)
(* An archive is a sequence of entries [name, c].  failAt / failMode name  *)
(* the entry at which the operating system refuses an operation:           *)
(* "open" (open() raises, the file is untouched) or "write" (the file was  *)
(* opened, hence truncated, and reading or writing the bytes raises).      *)
(***************************************************************************)
Entry(name, c) == [name |-> name, c |-> c]
Truncated == Bytes(0)

\* The mutant keeps the root folder in the path it writes to.
rel_path_unstripped(name) == name

\* rel_path = str(member.filename).split('/', 1)[1]
rel_path_of(name) == Tail(name)

\* The extraction loop from entry i on: [ok, fs, written, failedAt]; written
\* lists the files written, in order, as [path, c, i], i the entry's place in
\* the listing; failedAt is the place of the entry that raised, 0 for none.
RECURSIVE extract(_, _, _, _, _, _)
extract(f, entries, i, failAt, failMode, written) ==
    IF i > Len(entries)
    THEN [ok |-> TRUE, fs |-> f, written |-> written, failedAt |-> 0]
    ELSE LET member == entries[i]
         IN IF is_dir(member.name)
            THEN extract(f, entries, i + 1, failAt, failMode, written)
            ELSE IF Len(member.name) < 2
            THEN [ok |-> FALSE, fs |-> f, written |-> written,
                  failedAt |-> i]                                \* IndexError
            ELSE IF rel_path_of(member.name) = <<"">>
            THEN extract(f, entries, i + 1, failAt, failMode, written)
            ELSE LET target_path == path_join(TargetDir, rel_path_of(member.name))
                     md == makedirs(f, Front(target_path))
                     p == Resolve(target_path)
                 IN IF md.err \/ (i = failAt /\ failMode = "open") \/ IsDir(md.fs, p)
                    THEN [ok |-> FALSE, fs |-> md.fs, written |-> written,
                          failedAt |-> i]
                    ELSE IF i = failAt /\ failMode = "write"
                    THEN [ok |-> FALSE, fs |-> Put(md.fs, p, FileNode(Truncated)),
                          written |-> written, failedAt |-> i]
                    ELSE extract(Put(md.fs, p, FileNode(member.c)), entries, i + 1,
                                 failAt, failMode,
                                 Append(written, [path |-> p, c |-> member.c, i |-> i]))

\* The mutant returns True once the archive is open, whatever the loop did.
do_update_reports_ok(f, resp, failAt, failMode) ==
    IF resp.rk # "ok" \/ ~resp.isZip \/ resp.entries = <<>>
    THEN [ok |-> FALSE, fs |-> f, written |-> <<>>, downloaded |-> resp.rk = "ok",
          failedAt |-> 0]
    ELSE LET x == extract(f, resp.entries, 1, failAt, failMode, <<>>)
         IN [ok |-> TRUE, fs |-> x.fs, written |-> x.written, downloaded |-> TRUE,
             failedAt |-> x.failedAt]

\* The mutant takes an archive without entries for an update with nothing to do.
do_update_empty_ok(f, resp, failAt, failMode) ==
    IF resp.rk # "ok" \/ ~resp.isZip
    THEN [ok |-> FALSE, fs |-> f, written |-> <<>>, downloaded |-> resp.rk = "ok",
          failedAt |-> 0]
    ELSE LET x == extract(f, resp.entries, 1, failAt, failMode, <<>>)
         IN [ok |-> x.ok, fs |-> x.fs, written |-> x.written, downloaded |-> TRUE,
             failedAt |-> x.failedAt]

\* do_update: [ok, fs, written, downloaded, failedAt]; a failed download, an
\* unreadable archive and an empty listing raise before the loop.
do_update(f, resp, failAt, failMode) ==
    IF resp.rk # "ok" \/ ~resp.isZip \/ resp.entries = <<>>
    THEN [ok |-> FALSE, fs |-> f, written |-> <<>>, downloaded |-> resp.rk = "ok",
          failedAt |-> 0]
    ELSE LET x == extract(f, resp.entries, 1, failAt, failMode, <<>>)
         IN [ok |-> x.ok, fs |-> x.fs, written |-> x.written, downloaded |-> TRUE,
             failedAt |-> x.failedAt]

(***************************************************************************)
(* Inputs: the local installation, what the two endpoints answer and the   *)
(* command line.                                                           *)
(***************************************************************************)
\* Contents of the local version.json; "absent" stands for no file.
LocalRecords ==
    { VersionJson(PyStr(V_1_0_0)), VersionJson(PyStr(V_1_9_0)),
      VersionJson(PyInt(1)), JsonObj(FALSE, PyNone, FALSE), Bytes(1) }

OldMain == Bytes(7)

\* The installation before the program starts: target_dir with main.py,
\* with or without a version.json.
BaseTree == (<<>> :> DirNode) @@ (TargetDir :> DirNode)
            @@ ((TargetDir \o <<"main.py">>) :> FileNode(OldMain))

InitFileSystems ==
    { BaseTree } \cup { Put(BaseTree, local_version_file, FileNode(c)) : c \in LocalRecords }

ManifestResponses ==
    { NetError, Timeout, HttpError, Ok(Bytes(1)), Ok(JsonOther),
      Ok(JsonObj(FALSE, PyNone, TRUE)),
      Ok(VersionJson(PyStr(V_1_0_0))), Ok(VersionJson(PyStr(V_1_0_1))),
      Ok(VersionJson(PyStr(V_1_10_0))), Ok(VersionJson(PyStr(<<>>))),
      Ok(VersionJson(PyInt(2))), Ok(VersionJson(PyNone)) }

Root == "Repo-main"
ArchiveEntries ==
    { Entry(<<Root, "">>, Bytes(0)),
      Entry(<<Root, "version.json">>, VersionJson(PyStr(V_1_0_1))),
      Entry(<<Root, "main.py">>, Bytes(1)),
      Entry(<<Root, "main.py">>, Bytes(2)),
      Entry(<<Root, "src", "main.py">>, Bytes(2)),
      Entry(<<"Other", "main.py">>, Bytes(2)),
      Entry(<<"README">>, Bytes(1)),
      Entry(<<Root, "..", "evil">>, Bytes(1)),
      Entry(<<Root, "", "etc", "x">>, Bytes(1)) }

\* The listings of at most n entries of S, no entry listed twice (two
\* entries of one name and different bytes may both be listed).
RECURSIVE SeqsUpTo(_, _)
SeqsUpTo(S, n) ==
    IF n = 0 THEN { <<>> }
    ELSE LET shorter == SeqsUpTo(S, n - 1)
         IN shorter \cup
            { Append(qx[1], qx[2]) : qx \in
                { qy \in shorter \X S : \A i \in 1..Len(qy[1]) : qy[1][i] # qy[2] } }

Archives == SeqsUpTo(ArchiveEntries, MaxEntries)

ZipResponses == { NetError, HttpError, Ok(Bytes(1)) } \cup { OkZip(a) : a \in Archives }

\* What the "url" of the manifest serves to the single-file variant.
ScriptResponses ==
    { NetError, HttpError, Ok(Bytes(1)), Ok(Truncated),
      Ok(PyCode(PyStr(V_1_0_1))), Ok(PyCode(PyStr(V_1_10_0))),
      Ok(PyDefOnly(PyStr(V_1_10_0))) }

\* The operation the operating system refuses: none, or the open ("open")
\* or the read and write ("write") of the at-th entry.  A refusal has a
\* lasting cause (a read-only file, a damaged archive member), so it is
\* drawn at the first install and is the same at later ones.
NoFault == [at |-> 0, mode |-> "none"]
NotDrawn == [at |-> 0, mode |-> "not_drawn"]
FailPoints(n) ==
    { NoFault } \cup { [at |-> i, mode |-> m] : i \in 1..n, m \in {"open", "write"} }

Flags == {"check", "update", "force", "restart"}
ArgSets == { {}, {"check"}, {"update"}, {"force"}, {"restart"} }
EntryPoints == {"cli", "update_now", "check_only", "host", "script"}

\* Where an artifact is requested from: self.zip_url, built from owner, repo
\* and branch, and the value of the manifest's "url" key (None without one).
zip_url == "https://github.com/{owner}/{repo}/archive/refs/heads/{branch}.zip"
ManifestUrl == "<the manifest's url>"
NoUrl == "None"
script_url(remote_data) == IF remote_data.hasUrl THEN ManifestUrl ELSE NoUrl

NoCheck == [done |-> FALSE, raised |-> FALSE, available |-> FALSE,
            local_ver |-> PyNone, remote_ver |-> PyNone]
NoUpdate == [done |-> FALSE, ok |-> FALSE, written |-> <<>>, downloaded |-> FALSE,
             before |-> <<>>, failedAt |-> 0, url |-> NoUrl]

\* CURRENT_VERSION = "1.0.1"
CURRENT_VERSION == PyStr(V_1_0_1)
\* os.path.abspath(__file__) of the single-file variant
ScriptPath == TargetDir \o <<"main.py">>

\* What the user may type at the prompt; Unasked before the prompt.
UserChoices == {"y", "Y", "n", "yes"}
Unasked == "unasked"

Init ==
    /\ entry \in EntryPoints
    /\ args \in IF entry = "cli" THEN ArgSets ELSE { {} }
    /\ pc = "start"
    /\ fs \in InitFileSystems
    /\ manifestResp = NotFetched
    /\ zipResp = NotFetched
    /\ chk = NoCheck
    /\ upd = NoUpdate
    /\ logs = {}
    /\ restartCalls = <<>>
    /\ restarts = 0
    /\ fault = NotDrawn
    /\ answer = Unasked
    /\ currentVersion = CURRENT_VERSION

(***************************************************************************)
(* Steps shared by the entry points of updater.py and main.py.             *)
(***************************************************************************)
\* One call of updater.check_for_updates(); the endpoint's answer is drawn
\* at the first request and is the same at later ones.
CheckStep(nextAvailable, nextElse) ==
    \E m \in (IF manifestResp = NotFetched THEN ManifestResponses ELSE {manifestResp}) :
        LET r == check_for_updates(fs, m)
        IN /\ manifestResp' = m
           /\ chk' = [done |-> TRUE, raised |-> r.raised, available |-> r.available,
                      local_ver |-> r.local_ver, remote_ver |-> r.remote_ver]
           /\ logs' = logs \cup r.logs
           /\ pc' = IF r.raised THEN "crashed"
                    ELSE IF r.available THEN nextAvailable ELSE nextElse
           /\ UNCHANGED <<answer, entry, args, fs, zipResp, upd, restartCalls, restarts,
                          fault, currentVersion>>

\* One call of updater.do_update(); next(ok) is where the caller goes on.
DoUpdateStep(nextOk, nextFailed) ==
    \E z \in (IF zipResp = NotFetched THEN ZipResponses ELSE {zipResp}) :
    \E fp \in (IF fault = NotDrawn THEN FailPoints(Len(z.entries)) ELSE {fault}) :
        LET r == do_update(fs, z, fp.at, fp.mode)
        IN /\ zipResp' = z
           /\ fault' = fp
           /\ fs' = r.fs
           /\ upd' = [done |-> TRUE, ok |-> r.ok, written |-> r.written,
                      downloaded |-> r.downloaded, before |-> fs,
                      failedAt |-> r.failedAt, url |-> zip_url]
           /\ logs' = logs \cup {"info_download"}
                           \cup (IF r.ok THEN {"info_updated"} ELSE {"err_update"})
           /\ pc' = IF r.ok THEN nextOk ELSE nextFailed
           /\ UNCHANGED <<answer, entry, args, manifestResp, chk, restartCalls, restarts,
                          currentVersion>>

\* The mutant takes --check for --update.
cli_branch_check_updates(a) ==
    IF "force" \in a THEN "force"
    ELSE IF "update" \in a \/ "check" \in a THEN "update"
    ELSE "default"

\* The mutant never looks at --force.
cli_branch_no_force(a) == IF "update" \in a THEN "update" ELSE "default"

\* Which branch of the command line interface runs.
cli_branch(a) ==
    IF "force" \in a THEN "force"
    ELSE IF "update" \in a THEN "update"
    ELSE "default"

(***************************************************************************)
(* updater.py __main__                                                     *)
(***************************************************************************)
\* if args.force: updater.do_update(); restart_program()
CliForce ==
    /\ entry = "cli" /\ pc = "start" /\ cli_branch(args) = "force"
    /\ DoUpdateStep("restart", "restart")

\* elif args.update: available, _, _ = updater.check_for_updates()
CliUpdateCheck ==
    /\ entry = "cli" /\ pc = "start" /\ cli_branch(args) = "update"
    /\ CheckStep("do_update", "exit")

\* if available: updater.do_update(); restart_program()
CliUpdateInstall ==
    /\ entry = "cli" /\ pc = "do_update"
    /\ DoUpdateStep("restart", "restart")

\* else: updater.check_for_updates()
CliDefault ==
    /\ entry = "cli" /\ pc = "start" /\ cli_branch(args) = "default"
    /\ CheckStep("exit", "exit")

\* restart_program(): os.execv replaces the process image or raises OSError,
\* which nothing in __main__ catches.
\* counted: the call is added to the history restartCalls and the new image
\* is followed only up to MaxRestarts replacements; not counted: no history
\* is kept, so that a run may replace the process any number of times.
RestartProgram(counted) ==
    /\ entry = "cli" /\ pc = "restart"
    /\ \E replaced \in BOOLEAN :
        /\ restartCalls' =
               IF counted
               THEN Append(restartCalls,
                           [by |-> "restart_program", updDone |-> upd.done,
                            updOk |-> upd.ok, replaced |-> replaced])
               ELSE restartCalls
        /\ IF ~replaced
           THEN /\ pc' = "crashed"
                /\ UNCHANGED <<chk, upd, logs, restarts>>
           ELSE IF ~counted \/ restarts < MaxRestarts
           THEN /\ pc' = "start"
                /\ chk' = NoCheck /\ upd' = NoUpdate /\ logs' = {}
                /\ restarts' = IF counted THEN restarts + 1 ELSE restarts
           ELSE /\ pc' = "exec_capped"
                /\ UNCHANGED <<chk, upd, logs, restarts>>
    /\ UNCHANGED <<answer, entry, args, fs, manifestResp, zipResp, fault, currentVersion>>

restart_program == RestartProgram(TRUE)

(***************************************************************************)
(* updater.update_now and updater.check_only                               *)
(***************************************************************************)
UpdateNowCheck ==
    /\ entry = "update_now" /\ pc = "start"
    /\ CheckStep("do_update", "exit")

UpdateNowInstall ==
    /\ entry = "update_now" /\ pc = "do_update"
    /\ DoUpdateStep("exit", "exit")

check_only ==
    /\ entry = "check_only" /\ pc = "start"
    /\ CheckStep("exit", "exit")

(***************************************************************************)
(* main.py main()                                                          *)
(***************************************************************************)
\* str.lower() on the answers above.
lower(t) == IF t = "Y" THEN "y" ELSE t

\* The mutant installs unless the user typed n.
accepts_unless_no(user_choice) == lower(user_choice) # "n"

\* if user_choice.lower() == 'y'
accepts(user_choice) == lower(user_choice) = "y"

HostCheck ==
    /\ entry = "host" /\ pc = "start"
    /\ CheckStep("prompt", "app")

\* user_choice = input("Update now? (y/n): ")
HostPrompt ==
    /\ entry = "host" /\ pc = "prompt"
    /\ \E user_choice \in UserChoices :
        /\ answer' = user_choice
        /\ pc' = IF accepts(user_choice) THEN "do_update" ELSE "app"
    /\ UNCHANGED <<entry, args, fs, manifestResp, zipResp, chk, upd, logs,
                   restartCalls, restarts, fault, currentVersion>>

\* success = updater.do_update(); if success: exit()
HostInstall ==
    /\ entry = "host" /\ pc = "do_update"
    /\ DoUpdateStep("exit", "app")

(***************************************************************************)
(* test2/main.py: the single-file variant.                                 *)
(***************************************************************************)
\* remote_version > CURRENT_VERSION
script_is_newer(remote_version, cur) == PyGt(remote_version, cur)

\* check_for_updates() up to the call of perform_update:
\* [outcome, remote_version, hasUrl, logs], outcome "crash" when an exception
\* leaves the function (only RequestException and JSONDecodeError are caught).
script_check_for_updates(resp, cur) ==
    IF resp.rk # "ok"
    THEN [outcome |-> "error", remote_version |-> PyNone, hasUrl |-> FALSE,
          logs |-> {"err_network"}]
    ELSE IF resp.body.ck \in {"bytes", "py"}
    THEN [outcome |-> "error", remote_version |-> PyNone, hasUrl |-> FALSE,
          logs |-> {"err_parse"}]
    ELSE IF resp.body.ck # "json_obj"
    THEN [outcome |-> "crash", remote_version |-> PyNone, hasUrl |-> FALSE, logs |-> {}]
    ELSE LET remote_version == IF resp.body.hasVer THEN resp.body.ver ELSE PyNone
             cmp == script_is_newer(remote_version, cur)
         IN [outcome |-> CASE cmp = "TypeError" -> "crash"
                           [] cmp = "true" -> "update"
                           [] OTHER -> "uptodate",
             remote_version |-> remote_version, hasUrl |-> resp.body.hasUrl,
             logs |-> CASE cmp = "TypeError" -> {}
                        [] cmp = "true" -> {"info_update"}
                        [] OTHER -> {"info_uptodate"}]

\* "def " in new_code, "import " in new_code
contains_def(new_code) == new_code.ck \in {"py", "py_def"}
contains_import(new_code) == new_code.ck = "py"

\* The mutant has no integrity check.
integrity_check_skipped(new_code) == TRUE

\* not ("def " not in new_code and "import " not in new_code)
passes_integrity_check(new_code) ==
    ~(~contains_def(new_code) /\ ~contains_import(new_code))

\* perform_update(url, version) up to the call of restart_script:
\* [fs, overwritten, downloaded, logs]
perform_update(f, hasUrl, resp, failMode) ==
    IF ~hasUrl \/ resp.rk # "ok"
    THEN [fs |-> f, overwritten |-> FALSE, downloaded |-> FALSE, logs |-> {"err_update_failed"}]
    ELSE IF ~passes_integrity_check(resp.body)
    THEN [fs |-> f, overwritten |-> FALSE, downloaded |-> TRUE, logs |-> {"err_not_python"}]
    ELSE IF failMode = "open"
    THEN [fs |-> f, overwritten |-> FALSE, downloaded |-> TRUE, logs |-> {"err_update_failed"}]
    ELSE IF failMode = "write"
    THEN [fs |-> Put(f, ScriptPath, FileNode(Truncated)), overwritten |-> FALSE,
          downloaded |-> TRUE, logs |-> {"err_update_failed"}]
    ELSE [fs |-> Put(f, ScriptPath, FileNode(resp.body)), overwritten |-> TRUE,
          downloaded |-> TRUE, logs |-> {"info_overwritten"}]

ScriptCheck ==
    /\ entry = "script" /\ pc = "start"
    /\ \E m \in (IF manifestResp = NotFetched THEN ManifestResponses ELSE {manifestResp}) :
        LET r == script_check_for_updates(m, currentVersion)
        IN /\ manifestResp' = m
           /\ chk' = [done |-> TRUE, raised |-> r.outcome = "crash",
                      available |-> r.outcome = "update",
                      local_ver |-> currentVersion, remote_ver |-> r.remote_version]
           /\ logs' = logs \cup r.logs
           /\ pc' = CASE r.outcome = "crash" -> "crashed"
                      [] r.outcome = "update" -> "perform_update"
                      [] OTHER -> "main_loop"
    /\ UNCHANGED <<answer, entry, args, fs, zipResp, upd, restartCalls, restarts, fault,
                   currentVersion>>

ScriptPerformUpdate ==
    /\ entry = "script" /\ pc = "perform_update"
    /\ \E z \in (IF zipResp = NotFetched THEN ScriptResponses ELSE {zipResp}) :
       \E fp \in (IF fault = NotDrawn THEN FailPoints(1) ELSE {fault}) :
        LET r == perform_update(fs, manifestResp.body.hasUrl, z, fp.mode)
        IN /\ zipResp' = z
           /\ fault' = fp
           /\ fs' = r.fs
           /\ upd' = [done |-> TRUE, ok |-> r.overwritten,
                      written |-> IF r.overwritten
                                  THEN <<[path |-> ScriptPath, c |-> z.body, i |-> 1]>>
                                  ELSE <<>>,
                      downloaded |-> r.downloaded, before |-> fs,
                      failedAt |-> 0, url |-> script_url(manifestResp.body)]
           /\ logs' = logs \cup r.logs
           /\ pc' = IF r.overwritten THEN "restart_script" ELSE "main_loop"
    /\ UNCHANGED <<answer, entry, args, manifestResp, chk, restartCalls, restarts, currentVersion>>

\* restart_script(): os.execv replaces the process image with the script
\* just written, or raises OSError, which perform_update catches and logs.
RestartScript(counted) ==
    /\ entry = "script" /\ pc = "restart_script"
    /\ \E replaced \in BOOLEAN :
        /\ restartCalls' =
               IF counted
               THEN Append(restartCalls,
                           [by |-> "restart_script", updDone |-> upd.done,
                            updOk |-> upd.ok, replaced |-> replaced])
               ELSE restartCalls
        /\ IF ~replaced
           THEN /\ pc' = "main_loop"
                /\ logs' = logs \cup {"err_update_failed"}
                /\ UNCHANGED <<chk, upd, restarts, currentVersion>>
           ELSE IF ~counted \/ restarts < MaxRestarts
           THEN /\ pc' = "start"
                /\ chk' = NoCheck /\ upd' = NoUpdate /\ logs' = {}
                /\ restarts' = IF counted THEN restarts + 1 ELSE restarts
                /\ currentVersion' = fs[ScriptPath].c.ver
           ELSE /\ pc' = "exec_capped"
                /\ UNCHANGED <<chk, upd, logs, restarts, currentVersion>>
    /\ UNCHANGED <<answer, entry, args, fs, manifestResp, zipResp, fault>>

restart_script == RestartScript(TRUE)

(***************************************************************************)
(* The programs.                                                           *)
(***************************************************************************)
Next ==
    \/ CliForce
    \/ CliUpdateCheck
    \/ CliUpdateInstall
    \/ CliDefault
    \/ restart_program
    \/ UpdateNowCheck
    \/ UpdateNowInstall
    \/ check_only
    \/ HostCheck
    \/ HostPrompt
    \/ HostInstall
    \/ ScriptCheck
    \/ ScriptPerformUpdate
    \/ restart_script

Spec == Init /\ [][Next]_vars

(***************************************************************************)
(* The version comparison on its own: every pair of version strings up to  *)
(* MaxVerLen characters, and the versions the documentation names, as the  *)
(* local and the remote version of one check.                              *)
(***************************************************************************)
RECURSIVE StringsUpTo(_)
StringsUpTo(n) ==
    IF n = 0 THEN { <<>> }
    ELSE LET shorter == StringsUpTo(n - 1)
         IN shorter \cup { Append(q, c) : q \in shorter, c \in Chars }

VersionStrings ==
    StringsUpTo(MaxVerLen) \cup {V_0_0_0, V_1_0_0, V_1_0_1, V_1_9_0, V_1_10_0}

InitCmp ==
    /\ entry \in {"check_only", "script"}
    /\ args = {}
    /\ pc = "start"
    /\ \E a \in VersionStrings :
        /\ fs = Put(BaseTree, local_version_file, FileNode(VersionJson(PyStr(a))))
        /\ currentVersion = PyStr(a)
    /\ manifestResp \in { Ok(VersionJson(PyStr(b))) : b \in VersionStrings }
    /\ zipResp = NotFetched
    /\ chk = NoCheck
    /\ upd = NoUpdate
    /\ logs = {}
    /\ restartCalls = <<>>
    /\ restarts = 0
    /\ fault = NotDrawn
    /\ answer = Unasked

NextCmp == check_only \/ ScriptCheck

SpecCmp == InitCmp /\ [][NextCmp]_vars

(***************************************************************************)
(* The check of an installation without a local version.json, against      *)
(* every version string up to MaxVerLen characters and every other answer  *)
(* of the manifest endpoint, in each program of the updater that checks.   *)
(***************************************************************************)
InitAbsent ==
    /\ entry \in {"cli", "update_now", "check_only", "host"}
    /\ args \in IF entry = "cli" THEN { {}, {"check"}, {"update"} } ELSE { {} }
    /\ pc = "start"
    /\ fs = BaseTree
    /\ manifestResp \in ManifestResponses
                        \cup { Ok(VersionJson(PyStr(b))) : b \in VersionStrings }
    /\ zipResp = NotFetched
    /\ chk = NoCheck
    /\ upd = NoUpdate
    /\ logs = {}
    /\ restartCalls = <<>>
    /\ restarts = 0
    /\ fault = NotDrawn
    /\ answer = Unasked
    /\ currentVersion = CURRENT_VERSION

NextAbsent ==
    \/ CliDefault
    \/ CliUpdateCheck
    \/ UpdateNowCheck
    \/ check_only
    \/ HostCheck

SpecAbsent == InitAbsent /\ [][NextAbsent]_vars

(***************************************************************************)
(* The programs that restart themselves, followed through any number of    *)
(* process replacements: updater.py --update and --force, re-executed with *)
(* the same sys.argv, and the single-file variant.  The endpoints answer   *)
(* the same at every request.  A running process always takes its next     *)
(* step, hence the weak fairness.                                          *)
(***************************************************************************)
InitLoop ==
    /\ Init
    /\ \/ entry = "cli" /\ args \in { {"update"}, {"force"} }
       \/ entry = "script"

NextLoop ==
    \/ CliForce
    \/ CliUpdateCheck
    \/ CliUpdateInstall
    \/ RestartProgram(FALSE)
    \/ ScriptCheck
    \/ ScriptPerformUpdate
    \/ RestartScript(FALSE)

SpecLoop == InitLoop /\ [][NextLoop]_vars /\ WF_vars(NextLoop)

(***************************************************************************)
(* Properties.                                                             *)
(***************************************************************************)
\* Strict lexicographic order on strings: at the first place where a and b
\* differ, a has the larger character or b has ended.
LexGreater(a, b) ==
    \E k \in 1..Len(a) :
        /\ \A i \in 1..(k - 1) : i <= Len(b) /\ a[i] = b[i]
        /\ k > Len(b) \/ a[k] > b[k]

\* The two version strings one check compares.
LocalStr == IF entry = "script" THEN currentVersion.s ELSE fs[local_version_file].c.ver.s
RemoteStr == manifestResp.body.ver.s

\* C1: for every pair of version strings (remote, local) a check reports
\* available = true exactly when remote is strictly greater than local in
\* lexicographic order, does not raise, and reports false for equal strings.
C1_AvailableIffLexGreater ==
    chk.done =>
        /\ ~chk.raised
        /\ chk.available <=> LexGreater(RemoteStr, LocalStr)
        /\ RemoteStr = LocalStr => ~chk.available

\* C1 witness: remote "1.10.0" against local "1.9.0" is reported not newer.
C1_Witness ==
    /\ chk.done /\ entry = "check_only"
    /\ RemoteStr = V_1_10_0 /\ LocalStr = V_1_9_0
    /\ ~chk.available

IsUpdaterEntry == entry \in {"cli", "update_now", "host", "check_only"}

\* C2: after every successful update() that follows a check() reporting an
\* update, the local version record holds the remote version that check()
\* reported.
C2_RecordHoldsRemoteVersion ==
    (IsUpdaterEntry /\ chk.done /\ chk.available /\ upd.done /\ upd.ok) =>
        /\ IsFile(fs, local_version_file)
        /\ fs[local_version_file].c.ck = "json_obj"
        /\ fs[local_version_file].c.hasVer
        /\ fs[local_version_file].c.ver = chk.remote_ver

\* C3: the restart primitive is never invoked after an update that failed.
C3_NoRestartAfterFailedUpdate ==
    \A k \in 1..Len(restartCalls) :
        restartCalls[k].updDone => restartCalls[k].updOk

\* The manifest fetch failed: transport failure, timeout, non-success
\* status, unparsable body, no version field, version not a string.
ManifestFailure ==
    \/ manifestResp.rk # "ok"
    \/ manifestResp.body.ck # "json_obj"
    \/ ~manifestResp.body.hasVer
    \/ manifestResp.body.ver.t # "str"

\* C4: no check raises, and a check whose manifest fetch failed reports
\* available = false.
C4_CheckFailuresDegrade ==
    chk.done =>
        /\ ~chk.raised
        /\ ManifestFailure => ~chk.available

\* C5: when the manifest endpoint answers with a non-success status, check()
\* returns (false, the version read from the local record, None), nothing is
\* installed, no restart is called and the host goes on to its own logic.
C5_HttpErrorMeansNoUpdate ==
    (IsUpdaterEntry /\ chk.done /\ manifestResp.rk = "http_error") =>
        /\ ~chk.raised
        /\ ~chk.available
        /\ chk.local_ver = get_local_version(fs).val
        /\ chk.remote_ver = PyNone
        /\ ~upd.done
        /\ restartCalls = <<>>
        /\ pc = IF entry = "host" THEN "app" ELSE "exit"

C5_Witness ==
    /\ entry = "host" /\ chk.done /\ manifestResp = HttpError
    /\ chk.local_ver = PyStr(V_1_0_0)
    /\ pc = "app"

ErrorLogs == {"err_local", "err_remote", "err_update"}

\* C6: a check against a manifest without a version field ends in an error
\* outcome: it is not reported as up to date, and an error is raised or
\* logged.
C6_MissingVersionIsAnError ==
    (IsUpdaterEntry /\ chk.done /\ manifestResp.rk = "ok"
        /\ manifestResp.body.ck = "json_obj" /\ ~manifestResp.body.hasVer) =>
        /\ "info_uptodate" \notin logs
        /\ chk.raised \/ logs \cap ErrorLogs # {}

\* An install ran on a readable, non-empty archive.
Installed ==
    /\ IsUpdaterEntry /\ upd.done /\ upd.downloaded
    /\ zipResp.isZip /\ zipResp.entries # <<>>

RootOf(entries) == Head(entries[1].name)
Mismatches(entries, i) ==
    Len(entries[i].name) < 2 \/ Head(entries[i].name) # RootOf(entries)
MismatchAt(entries) == { i \in 1..Len(entries) : Mismatches(entries, i) }
FirstMismatch(entries) ==
    CHOOSE i \in MismatchAt(entries) : \A j \in MismatchAt(entries) : i <= j

\* C7: an install of an archive with an entry outside the root prefix of the
\* first entry fails, and writes no file of the mismatching entry or of an
\* entry after it.
C7_MismatchRejectsInstall ==
    (Installed /\ MismatchAt(zipResp.entries) # {}) =>
        /\ ~upd.ok
        /\ \A k \in 1..Len(upd.written) :
               upd.written[k].i < FirstMismatch(zipResp.entries)

UniformRoot(entries) == entries # <<>> /\ MismatchAt(entries) = {}
IsFileEntry(e) == e.name[Len(e.name)] # ""
\* p of a file entry root/p, and the file target_dir/p
Remainder(e) == Tail(e.name)
FileNamed(e) == Resolve(TargetDir \o Remainder(e))
FileEntries(entries) == { i \in 1..Len(entries) : IsFileEntry(entries[i]) }
ParentsExist(f, q) == \A k \in 0..(Len(q) - 1) : IsDir(f, SubSeq(q, 1, k))
\* f and g hold the same file, or both none, at q
SameFileAt(f, g, q) ==
    /\ IsFile(f, q) <=> IsFile(g, q)
    /\ IsFile(f, q) => f[q] = g[q]

\* C8 as stated: an install of an archive whose entries share one root
\* writes every file entry root/p to target_dir/p with the entry's bytes,
\* under existing parent directories, and changes no other file.
C8_EveryEntryWritten ==
    (Installed /\ UniformRoot(zipResp.entries)) =>
        /\ \A i \in FileEntries(zipResp.entries) :
               LET e == zipResp.entries[i]
               IN /\ IsFile(fs, FileNamed(e))
                  /\ fs[FileNamed(e)].c = e.c
                  /\ ParentsExist(fs, FileNamed(e))
        /\ \A q \in DOMAIN fs \cup DOMAIN upd.before :
               (\A i \in FileEntries(zipResp.entries) : FileNamed(zipResp.entries[i]) # q)
                   => SameFileAt(fs, upd.before, q)

\* The file os.path.join(target_dir, p) names for the entry root/p:
\* target_dir/p for a relative p, p itself for a p that starts with '/'.
JoinedFile(e) == Resolve(path_join(TargetDir, Remainder(e)))

\* The last file entry of the listing that names the file q.
LastNaming(entries, q) ==
    CHOOSE i \in FileEntries(entries) :
        /\ JoinedFile(entries[i]) = q
        /\ \A j \in FileEntries(entries) : JoinedFile(entries[j]) = q => j <= i

\* C8 amended: when do_update returns true on an archive whose entries share
\* one root, the file os.path.join(target_dir, p) of every file entry root/p
\* exists under existing parent directories and holds the bytes of the last
\* entry naming it, and no other file is changed.
C8_SuccessWritesLastEntry ==
    (Installed /\ upd.ok /\ UniformRoot(zipResp.entries)) =>
        /\ \A i \in FileEntries(zipResp.entries) :
               LET q == JoinedFile(zipResp.entries[i])
               IN /\ IsFile(fs, q)
                  /\ fs[q].c = zipResp.entries[LastNaming(zipResp.entries, q)].c
                  /\ ParentsExist(fs, q)
        /\ \A q \in DOMAIN fs \cup DOMAIN upd.before :
               (\A i \in FileEntries(zipResp.entries) : JoinedFile(zipResp.entries[i]) # q)
                   => SameFileAt(fs, upd.before, q)

\* C8 witness: a successful install that overwrote main.py and created
\* src/ for src/main.py, next to a directory entry.
C8_Witness ==
    /\ Installed /\ upd.ok /\ UniformRoot(zipResp.entries)
    /\ zipResp.entries = << Entry(<<Root, "main.py">>, Bytes(2)),
                            Entry(<<Root, "src", "main.py">>, Bytes(2)) >>
    /\ upd.before[TargetDir \o <<"main.py">>] = FileNode(OldMain)
    /\ ~Exists(upd.before, TargetDir \o <<"src">>)
    /\ fs[TargetDir \o <<"src", "main.py">>] = FileNode(Bytes(2))

IsForce == entry = "cli" /\ "force" \in args

\* C9: under --force no version is read or compared and the manifest is
\* never fetched; do_update is called first, and restart_program is called
\* after it whatever it returned.
C9_ForceAlwaysUpdatesAndRestarts ==
    IsForce =>
        /\ ~chk.done /\ manifestResp = NotFetched
        /\ pc \in {"start", "restart", "crashed", "exec_capped"}
        /\ pc = "restart" => upd.done
        /\ pc \in {"crashed", "exec_capped"} =>
               upd.done /\ Len(restartCalls) = restarts + 1
        /\ pc \in {"start", "restart"} => Len(restartCalls) = restarts
        /\ \A k \in 1..Len(restartCalls) : restartCalls[k].updDone

\* C9 witness: --force with a local record newer than anything published
\* and an unreachable artifact still reaches the restart.
C9_Witness ==
    /\ IsForce /\ IsFile(fs, local_version_file)
    /\ fs[local_version_file] = FileNode(VersionJson(PyStr(V_1_9_0)))
    /\ zipResp = NetError
    /\ Len(restartCalls) = 1 /\ ~restartCalls[1].updOk

\* C10: an invocation with --restart alone calls the restart primitive and
\* performs neither a check nor an install.
C10_RestartFlagRestartsOnly ==
    (entry = "cli" /\ args = {"restart"}) =>
        /\ ~chk.done
        /\ ~upd.done
        /\ pc # "start" => Len(restartCalls) > 0

\* A run that only checks: --check or no flag on the command line, and
\* check_only().
CheckOnlyRun ==
    \/ entry = "cli" /\ "force" \notin args /\ "update" \notin args
    \/ entry = "check_only"

\* A step in which check_for_updates runs, in any program of the updater.
CheckRuns == IsUpdaterEntry /\ ~chk.done /\ chk'.done

\* Nothing is written, downloaded or restarted in the step.
NothingMutated ==
    /\ fs' = fs
    /\ zipResp' = zipResp
    /\ upd' = upd
    /\ restartCalls' = restartCalls /\ restarts' = restarts

\* C11: every step of a check-only run, and the step in which the host (or
\* any other caller) runs check_for_updates, leaves every file unchanged,
\* the local version record included, downloads no archive and restarts
\* nothing, whatever the check finds.
C11_CheckMutatesNothing ==
    [][(CheckOnlyRun \/ CheckRuns) => NothingMutated]_vars

\* C11 witness: --check found an update and the run ended with the files as
\* they were, no archive fetched and no restart.
C11_Witness ==
    /\ entry = "cli" /\ args = {"check"}
    /\ chk.done /\ chk.available /\ pc = "exit"
    /\ fs \in InitFileSystems /\ zipResp = NotFetched /\ restartCalls = <<>>

\* This process image has called do_update, or is about to.
InstallStarted == upd.done \/ pc = "do_update"

\* C12: outside --force, do_update is called only when the check this
\* process image ran just before returned available = true, and in the host
\* program only when the user also answered y (in either case of the letter).
C12_InstallOnlyAfterAvailable ==
    (IsUpdaterEntry /\ ~IsForce /\ InstallStarted) =>
        /\ chk.done /\ ~chk.raised /\ chk.available
        /\ entry = "host" => lower(answer) = "y"

\* C12 witness: the host installed after an available update and a capital
\* Y at the prompt.
C12_Witness ==
    /\ entry = "host" /\ upd.done /\ answer = "Y"
    /\ chk.done /\ chk.available

\* C13: with no local version.json the check reads the local version as
\* "0.0.0", logs a warning and no error, and returns available = true
\* exactly when the remote version is a string lexicographically greater
\* than "0.0.0"; it raises for no remote string and no failed fetch.
C13_AbsentRecordReadsZero ==
    (IsUpdaterEntry /\ chk.done /\ ~Exists(fs, local_version_file)) =>
        /\ chk.local_ver = PyStr(V_0_0_0)
        /\ "warn_local_missing" \in logs /\ "err_local" \notin logs
        /\ chk.available <=>
               /\ manifestResp.rk = "ok" /\ manifestResp.body.ck = "json_obj"
               /\ manifestResp.body.hasVer /\ manifestResp.body.ver.t = "str"
               /\ LexGreater(manifestResp.body.ver.s, V_0_0_0)
        /\ chk.raised => chk.remote_ver.t = "int"

\* C13 witness: no local record and remote "0." (a prefix of "0.0.0", so
\* not greater): no update; the state after the check.
C13_Witness ==
    /\ entry = "check_only" /\ chk.done /\ ~Exists(fs, local_version_file)
    /\ manifestResp = Ok(VersionJson(PyStr(<<48, 46>>)))
    /\ ~chk.available /\ chk.local_ver = PyStr(V_0_0_0)

\* The last call of the restart primitive did not replace the process.
RestartFailed ==
    /\ Len(restartCalls) > 0
    /\ ~restartCalls[Len(restartCalls)].replaced

\* C14: a failure of the restart primitive is not fatal: after a restart
\* that did not replace the process, the calling process is still running,
\* after restart_program in the command line of updater.py as after
\* restart_script in the single-file variant.
C14_RestartFailureNotFatal ==
    RestartFailed => pc # "crashed"

\* An install of this process image met a failure: the download, the
\* opening of the archive (an empty listing included) or an entry.
InstallFailure ==
    /\ IsUpdaterEntry /\ upd.done
    /\ \/ zipResp.rk # "ok" \/ ~zipResp.isZip \/ zipResp.entries = <<>>
       \/ upd.failedAt > 0

NamesFile(e) == IsFileEntry(e) /\ Len(e.name) >= 2 /\ Remainder(e) # <<"">>

\* The bytes of the last write to q in this install.
WritesTo(q) == { k \in 1..Len(upd.written) : upd.written[k].path = q }
LastWriteTo(q) ==
    upd.written[CHOOSE k \in WritesTo(q) : \A j \in WritesTo(q) : j <= k].c

\* do_update returned False to its caller, which went on: the host to the
\* application, the command line to the restart; nothing was raised.
ReturnedFalse ==
    /\ ~upd.ok
    /\ entry = "host" => pc = "app"
    /\ pc = "crashed" => RestartFailed

\* The files the entry that failed, and the entries after it, name.
FailingFiles ==
    { JoinedFile(zipResp.entries[i]) :
        i \in { j \in 1..Len(zipResp.entries) :
                  j = upd.failedAt /\ NamesFile(zipResp.entries[j]) } }
UnprocessedFiles ==
    { JoinedFile(zipResp.entries[i]) :
        i \in { j \in 1..Len(zipResp.entries) :
                  upd.failedAt > 0 /\ j > upd.failedAt
                  /\ NamesFile(zipResp.entries[j]) } }

\* C15 as stated: a failed do_update returns False without raising, every
\* file written before the failure holds the bytes written to it, the files
\* of the entries not yet processed are as before, and the host goes on to
\* the application.
C15_PartialInstallKept ==
    InstallFailure =>
        /\ ReturnedFalse
        /\ \A k \in 1..Len(upd.written) :
               LET q == upd.written[k].path
               IN IsFile(fs, q) /\ fs[q].c = LastWriteTo(q)
        /\ \A q \in UnprocessedFiles : SameFileAt(fs, upd.before, q)

\* C15 amended: as above, for the files written before the failure that the
\* failing entry does not name too, and for the files that only entries not
\* yet processed name; no other file than these and the failing entry's is
\* changed.
C15_PartialInstallKeptElsewhere ==
    InstallFailure =>
        /\ ReturnedFalse
        /\ \A k \in 1..Len(upd.written) :
               LET q == upd.written[k].path
               IN q \notin FailingFiles =>
                      IsFile(fs, q) /\ fs[q].c = LastWriteTo(q)
        /\ \A q \in DOMAIN fs \cup DOMAIN upd.before :
               (WritesTo(q) = {} /\ q \notin FailingFiles)
                   => SameFileAt(fs, upd.before, q)

\* C15 witness: the host's install wrote the first entry, failed in the
\* second, a different file, and the host went on to the application.
C15_Witness ==
    /\ entry = "host" /\ pc = "app" /\ upd.done /\ ~upd.ok
    /\ upd.failedAt = 2 /\ Len(upd.written) = 1
    /\ upd.written[1].path \notin FailingFiles
    /\ fs[upd.written[1].path].c = upd.written[1].c
    /\ fs[upd.written[1].path] # upd.before[upd.written[1].path]

\* The downloaded bytes are not a zip archive, or the archive lists nothing.
UnreadableOrEmpty ==
    zipResp.rk = "ok" /\ (~zipResp.isZip \/ zipResp.entries = <<>>)

\* C16: an install given bytes that are not an archive, or an archive with
\* an empty listing, returns false before any write: the file system is as
\* it was when do_update was called, directories included.
C16_UnreadableArchiveWritesNothing ==
    (IsUpdaterEntry /\ upd.done /\ UnreadableOrEmpty) =>
        /\ ~upd.ok
        /\ upd.written = <<>>
        /\ fs = upd.before

\* C16 witness: update_now downloaded an archive with an empty listing and
\* ended with do_update's False.
C16_Witness ==
    /\ entry = "update_now" /\ pc = "exit" /\ upd.done /\ ~upd.ok
    /\ zipResp = OkZip(<<>>) /\ fs = upd.before

\* C17: an install that follows a check whose manifest has a "url" requests
\* the artifact from that url.
C17_DownloadsFromManifestUrl ==
    (upd.done /\ chk.done /\ manifestResp.rk = "ok" /\ manifestResp.body.hasUrl) =>
        upd.url = ManifestUrl

\* The process has ended, or runs the single-file variant's main loop, which
\* never checks again.
Stopped == pc \in {"exit", "crashed", "main_loop"}

\* C18: with endpoints that answer the same every time, a process started
\* with --update or --force, and the single-file variant, install and
\* restart only finitely often and then stay where no install is started.
C18_EventuallyStopsInstalling == <>[]Stopped

\* q is target_dir or lies below it.
InsideTargetDir(q) ==
    /\ Len(q) >= Len(TargetDir)
    /\ SubSeq(q, 1, Len(TargetDir)) = TargetDir

\* C19: every file an install writes, creates or truncates is a descendant
\* of target_dir, whatever the names of the archive's entries.
C19_WritesStayInsideTargetDir ==
    (IsUpdaterEntry /\ upd.done) =>
        /\ \A k \in 1..Len(upd.written) : InsideTargetDir(upd.written[k].path)
        /\ \A q \in DOMAIN fs \cup DOMAIN upd.before :
               ~SameFileAt(fs, upd.before, q) => InsideTargetDir(q)

\* The download of the new script failed: no url to ask, or no success
\* answer.
ScriptDownloadFailed == ~manifestResp.body.hasUrl \/ zipResp.rk # "ok"

\* The downloaded text contains "def " or "import ".
HasDefOrImport(c) == c.ck \in {"py", "py_def"}

\* The restart primitive was called by this process image.
RestartedHere == Len(restartCalls) > restarts

\* C20: in the single-file variant, after a failed download or a text with
\* neither "def " nor "import " the script file (and every other file) is
\* as before and no restart is called; the file changes only after a
\* download that succeeded and passed the check; and the restart is called
\* only with the script file holding the whole downloaded text.
C20_OverwriteOnlyAfterIntegrity ==
    entry = "script" =>
        /\ (upd.done /\ (ScriptDownloadFailed \/ ~HasDefOrImport(zipResp.body))) =>
               /\ fs = upd.before
               /\ pc = "main_loop" /\ ~RestartedHere
        /\ (upd.done /\ fs # upd.before) =>
               ~ScriptDownloadFailed /\ HasDefOrImport(zipResp.body)
        /\ (pc = "restart_script" \/ RestartedHere) =>
               /\ upd.done /\ upd.ok
               /\ ~ScriptDownloadFailed /\ HasDefOrImport(zipResp.body)
               /\ fs[ScriptPath] = FileNode(zipResp.body)

\* C20 witness: the url answered 200 with a page that is not Python; the
\* script was left alone and the main loop runs.
C20_Witness ==
    /\ entry = "script" /\ upd.done /\ pc = "main_loop"
    /\ manifestResp.body.hasUrl /\ zipResp = Ok(Bytes(1))
    /\ fs = upd.before /\ fs[ScriptPath] = FileNode(OldMain)
    /\ "err_not_python" \in logs /\ restartCalls = <<>>

====
